---- MODULE Spec2Model ----
(***************************************************************************)
(* A model of the safebox crate (src/src/lib.rs): the memzero primitive,   *)
(* the SafeBox<T> / SafeBox<[T]> container over a Box<T>, its              *)
(* constructors, guarded accessors, Clone and Drop.                        *)
(*                                                                         *)
(* The heap is a sequence of blocks that is only ever appended to: a block *)
(* that was released keeps the bytes it held at the moment of release, so  *)
(* "what a raw pointer captured before the drop would read" is the bytes   *)
(* of a freed block.  The program is single threaded and every operation   *)
(* is synchronous, so a multi-step operation (new_slice_with, drop) runs   *)
(* to its end before the caller does anything else: pc is the position     *)
(* inside the running operation.                                           *)
(***************************************************************************)
EXTENDS Integers, Sequences, FiniteSets, TLC

\* ---- bounds ----
MaxBlocks == 2     \* constructions (heap requests) a run may make
MaxLen == 2        \* largest element count of a sequence container
SizeOfT == 2       \* mem::size_of::<T>() of the element type, in bytes

\* ---- representation of content ----
Radix == 256                      \* a byte is a u8
Uninit == 0 - 1                   \* a byte of MaybeUninit / fresh allocation
Placeholders == {42}              \* values a caller constructs with
Secrets == {355}                  \* values a caller writes later (355 = 0x0163)
Seeds == {1}                      \* first value of a counting generator
TypeKinds == {"Copy", "Drop"}     \* T: Copy, or a T with a destructor

\* What the destructor of a content type may do to the value it is run on:
\* a Copy type has none; another type's may only read its fields (Foo of the
\* test module prints them) or may write them.
DtorEffects(kind) == IF kind = "Copy" THEN {"none"} ELSE {"reads", "writes"}

VARIABLES heap, box, pc, cur, zi, zlen, ctor, unwinding, abandoned, reference, last

vars == <<heap, box, pc, cur, zi, zlen, ctor, unwinding, abandoned, reference, last>>

\* the caller's container variables, in declaration order (a and b of test::clone)
Boxes == {1, 2}

\* T -> its in-memory bytes (little endian, SizeOfT bytes)
RECURSIVE Pow(_, _)
Pow(b, e) == IF e = 0 THEN 1 ELSE b * Pow(b, e - 1)

\* as ToBytes, keeping the low byte only
ToBytesLowByte(v) == [j \in 1..SizeOfT |-> IF j = 1 THEN v % Radix ELSE 0]

ToBytes(v) == [j \in 1..SizeOfT |-> (v \div Pow(Radix, j - 1)) % Radix]

RECURSIVE FromBytes(_)
FromBytes(bs) ==
    IF bs = <<>> THEN 0 ELSE Head(bs) + Radix * FromBytes(Tail(bs))

\* ---- the allocator ----
Alloc(h, nbytes) ==
    Append(h, [status |-> "alloc", bytes |-> [j \in 1..nbytes |-> Uninit]])

Dealloc(h, k) == [h EXCEPT ![k].status = "freed"]

\* ptr.add(off) <- bs[1], bs[2], ...
WriteBytes(h, k, off, bs) ==
    [h EXCEPT ![k].bytes =
        [j \in DOMAIN @ |-> IF j > off /\ j <= off + Len(bs) THEN bs[j - off] ELSE @[j]]]

\* raw.add(i).write_volatile(0_u8)
WriteVolatile(h, k, i) == WriteBytes(h, k, i, <<0>>)

\* ---- Vec<T>, as far as the constructors use it ----
\* as VecWithCapacity, with room for one more element than asked for
VecWithCapacityAmortized(h, n) ==
    [heap |-> Alloc(h, (n + 1) * SizeOfT), vec |-> [blk |-> Len(h) + 1, cap |-> n + 1, len |-> 0]]

VecWithCapacity(h, n) ==
    [heap |-> Alloc(h, n * SizeOfT), vec |-> [blk |-> Len(h) + 1, cap |-> n, len |-> 0]]

\* ptr::write(end, v); len += 1   (capacity is never exceeded by the callers)
VecPush(h, vec, v) ==
    [heap |-> WriteBytes(h, vec.blk, vec.len * SizeOfT, ToBytes(v)),
     vec |-> [vec EXCEPT !.len = @ + 1]]

RECURSIVE VecFill(_, _, _, _)
VecFill(h, vec, v, n) ==
    IF n = 0 THEN [heap |-> h, vec |-> vec]
    ELSE LET r == VecPush(h, vec, v) IN VecFill(r.heap, r.vec, v, n - 1)

\* as VecFromElem, one element short
VecFromElemShort(h, v, n) ==
    LET r == VecWithCapacity(h, n) IN VecFill(r.heap, r.vec, v, IF n = 0 THEN 0 ELSE n - 1)

\* vec![v; len]
VecFromElem(h, v, n) ==
    LET r == VecWithCapacity(h, n) IN VecFill(r.heap, r.vec, v, n)

\* Vec::into_boxed_slice: shrink_to_fit, then hand the buffer over.  With
\* spare capacity the items move to a new exact buffer and the old buffer is
\* released as it is.
IntoBoxedSlice(h, vec) ==
    IF vec.len < vec.cap
    THEN LET h1 == Alloc(h, vec.len * SizeOfT)
             h2 == WriteBytes(h1, Len(h) + 1, 0, SubSeq(h[vec.blk].bytes, 1, vec.len * SizeOfT))
         IN [heap |-> Dealloc(h2, vec.blk), blk |-> Len(h) + 1]
    ELSE [heap |-> h, blk |-> vec.blk]

\* ---- the container ----
NoBox == [state |-> "absent", origin |-> "none", blk |-> 0, len |-> 0, slice |-> FALSE, kind |-> "Copy",
          zeroCalls |-> 0, stores |-> 0, fences |-> 0, dtorRuns |-> 0, cause |-> "none"]

LiveBox(origin, k, n, isSlice, kind) ==
    [NoBox EXCEPT !.state = "live", !.origin = origin, !.blk = k, !.len = n,
                  !.slice = isSlice, !.kind = kind]

Live(b) == box[b].state = "live"

FreeSlots == {b \in Boxes : box[b].state = "absent"}

NextSlot == CHOOSE b \in FreeSlots : \A c \in FreeSlots : b <= c

CanConstruct == pc = "idle" /\ ~unwinding /\ FreeSlots # {} /\ Len(heap) < MaxBlocks

\* mem::size_of_val(&*self.0)
SizeOfVal(b) == box[b].len * SizeOfT

Elem(bytes, i) == FromBytes(SubSeq(bytes, (i - 1) * SizeOfT + 1, i * SizeOfT))

\* get_ref: &self.0, read as a sequence of T (one element for SafeBox<T>)
GetRef(b) == [i \in 1..box[b].len |-> Elem(heap[box[b].blk].bytes, i)]

NoCtor == [blk |-> 0, cap |-> 0, len |-> 0, remaining |-> 0, kind |-> "Copy",
           first |-> 0, next |-> 0, calls |-> <<>>, n |-> 0]

Op(name, a, b) == [op |-> name, a |-> a, b |-> b, out |-> <<>>]

NoOp == Op("init", 0, 0)

Init ==
    /\ heap = <<>>
    /\ box = [b \in Boxes |-> NoBox]
    /\ pc = "idle"
    /\ cur = 0
    /\ zi = 0
    /\ zlen = 0
    /\ ctor = NoCtor
    /\ unwinding = FALSE
    /\ abandoned = {}
    /\ reference = [b \in Boxes |-> <<>>]
    /\ last = NoOp

\* SafeBox::new(v): Self(Box::new(v))
New(v) ==
    /\ CanConstruct
    /\ LET h1 == Alloc(heap, SizeOfT)
           b == NextSlot
       IN /\ heap' = WriteBytes(h1, Len(heap) + 1, 0, ToBytes(v))
          /\ box' = [box EXCEPT ![b] = LiveBox("new", Len(heap) + 1, 1, FALSE, "Copy")]
          /\ reference' = [reference EXCEPT ![b] = <<v>>]
          /\ last' = Op("new", 0, b)
    /\ UNCHANGED <<pc, cur, zi, zlen, ctor, unwinding, abandoned>>

\* Default::default(): SafeBox::<T>::new(T::default())
Default == New(0)

\* SafeBox::new_slice(v, len): Self(vec![v; len].into_boxed_slice())
NewSlice(v, n) ==
    /\ CanConstruct
    /\ LET r == VecFromElem(heap, v, n)
           s == IntoBoxedSlice(r.heap, r.vec)
           b == NextSlot
       IN /\ heap' = s.heap
          /\ box' = [box EXCEPT ![b] = LiveBox("new_slice", s.blk, r.vec.len, TRUE, "Copy")]
          /\ reference' = [reference EXCEPT ![b] = [i \in 1..n |-> v]]
          /\ last' = [Op("new_slice", n, b) EXCEPT !.out = <<v>>]
    /\ UNCHANGED <<pc, cur, zi, zlen, ctor, unwinding, abandoned>>

\* SafeBox::new_slice_with(len, f), entry: repeat_with(f).take(len) is built
\* and collect::<Vec<T>>() reserves the iterator's exact upper bound.  T is
\* any type: the impl block carries no Copy bound.
NewSliceWithBegin(n, kind, seed) ==
    /\ CanConstruct
    /\ LET r == VecWithCapacity(heap, n)
       IN /\ heap' = r.heap
          /\ ctor' = [blk |-> r.vec.blk, cap |-> r.vec.cap, len |-> 0, remaining |-> n,
                      kind |-> kind, first |-> seed, next |-> seed, calls |-> <<>>, n |-> n]
    /\ pc' = "gen"
    /\ last' = Op("new_slice_with", 0, 0)
    /\ UNCHANGED <<box, cur, zi, zlen, unwinding, abandoned, reference>>

\* as GenNext, calling f a second time before the element is written
GenNextTwice ==
    /\ pc = "gen"
    /\ ctor.remaining > 0
    /\ LET v == ctor.next + 1
           r == VecPush(heap, [blk |-> ctor.blk, cap |-> ctor.cap, len |-> ctor.len], v)
       IN /\ heap' = r.heap
          /\ ctor' = [ctor EXCEPT !.len = r.vec.len, !.remaining = @ - 1,
                                  !.next = v + 1, !.calls = Append(Append(@, v - 1), v)]
    /\ last' = Op("gen", 0, 0)
    /\ UNCHANGED <<box, pc, cur, zi, zlen, unwinding, abandoned, reference>>

\* Take::next with items remaining: one call of f, whose result is written
\* at the end of the vector.  f is a counter: it yields next and steps it.
GenNext ==
    /\ pc = "gen"
    /\ ctor.remaining > 0
    /\ LET v == ctor.next
           r == VecPush(heap, [blk |-> ctor.blk, cap |-> ctor.cap, len |-> ctor.len], v)
       IN /\ heap' = r.heap
          /\ ctor' = [ctor EXCEPT !.len = r.vec.len, !.remaining = @ - 1,
                                  !.next = v + 1, !.calls = Append(@, v)]
    /\ last' = Op("gen", 0, 0)
    /\ UNCHANGED <<box, pc, cur, zi, zlen, unwinding, abandoned, reference>>

\* What a destructor of the content type does to the bytes of one element.
DropInPlace(bytes, effect) ==
    IF effect = "writes" THEN [bytes EXCEPT ![1] = Radix - 1] ELSE bytes

\* drop_in_place::<[T]>: the destructor of each of the n elements in turn
DropElems(h, k, n, effect) ==
    LET old == h[k].bytes
        dropped(e) == DropInPlace(SubSeq(old, e * SizeOfT + 1, (e + 1) * SizeOfT), effect)
    IN [h EXCEPT ![k].bytes =
           [j \in DOMAIN old |->
               IF j <= n * SizeOfT
               THEN dropped((j - 1) \div SizeOfT)[((j - 1) % SizeOfT) + 1]
               ELSE old[j]]]

\* Drop for Vec<T>: the elements' destructors, then the buffer is released
VecDrop(h, k, n, effect) == Dealloc(DropElems(h, k, n, effect), k)

\* The call of f that Take::next makes unwinds: the vector under construction
\* is dropped by the unwinding, which goes on into the caller.
GenPanic ==
    /\ pc = "gen"
    /\ ctor.remaining > 0
    /\ \E effect \in DtorEffects(ctor.kind) :
          heap' = VecDrop(heap, ctor.blk, ctor.len, effect)
    /\ ctor' = NoCtor
    /\ pc' = "idle"
    /\ unwinding' = TRUE
    /\ abandoned' = abandoned \cup {ctor.blk}
    /\ last' = Op("gen_panic", ctor.len, ctor.blk)
    /\ UNCHANGED <<box, cur, zi, zlen, reference>>

\* Take::next returns None: collect is done, into_boxed_slice, Self(..)
NewSliceWithEnd ==
    /\ pc = "gen"
    /\ ctor.remaining = 0
    /\ LET s == IntoBoxedSlice(heap, [blk |-> ctor.blk, cap |-> ctor.cap, len |-> ctor.len])
           b == NextSlot
       IN /\ heap' = s.heap
          /\ box' = [box EXCEPT ![b] = LiveBox("new_slice_with", s.blk, ctor.len, TRUE, ctor.kind)]
          /\ reference' = [reference EXCEPT ![b] = ctor.calls]
          /\ last' = [Op("new_slice_with_end", ctor.n, b) EXCEPT !.out = ctor.calls]
    /\ ctor' = NoCtor
    /\ pc' = "idle"
    /\ UNCHANGED <<cur, zi, zlen, unwinding, abandoned>>

CanAccess(b) == pc = "idle" /\ ~unwinding /\ Live(b)

\* unsafe { s.get_ref() }, read in full
GetRefCall(b) ==
    /\ CanAccess(b)
    /\ last' = [Op("get_ref", 0, b) EXCEPT !.out = GetRef(b)]
    /\ UNCHANGED <<heap, box, pc, cur, zi, zlen, ctor, unwinding, abandoned, reference>>

\* unsafe { s.get_mut()[i] = v }   (*s.get_mut() = v for a single value)
GetMutWrite(b, i, v) ==
    /\ CanAccess(b)
    /\ i < box[b].len
    /\ heap' = WriteBytes(heap, box[b].blk, i * SizeOfT, ToBytes(v))
    /\ reference' = [reference EXCEPT ![b][i + 1] = v]
    /\ last' = Op("get_mut", 0, 0)
    /\ UNCHANGED <<box, pc, cur, zi, zlen, ctor, unwinding, abandoned>>

\* dest_ptr.copy_from_nonoverlapping(src, count): count * size_of::<T>() bytes
CopyNonoverlapping(h, dst, src, count) ==
    WriteBytes(h, dst, 0, SubSeq(h[src].bytes, 1, count * SizeOfT))

\* as Clone, copying the pointer instead of the content
CloneShallow(a) ==
    /\ CanConstruct
    /\ Live(a)
    /\ box[a].kind = "Copy"
    /\ LET b == NextSlot
       IN /\ box' = [box EXCEPT ![b] = LiveBox("clone", box[a].blk, box[a].len, box[a].slice, "Copy")]
          /\ reference' = [reference EXCEPT ![b] = reference[a]]
          /\ last' = Op("clone", 0, 0)
    /\ UNCHANGED <<heap, pc, cur, zi, zlen, ctor, unwinding, abandoned>>

\* Clone for SafeBox<T> and for SafeBox<[T]> (both T: Copy): a new box of
\* MaybeUninit of the same shape, then a memcopy of the whole content.
Clone(a) ==
    /\ CanConstruct
    /\ Live(a)
    /\ box[a].kind = "Copy"
    /\ LET n == box[a].len
           h1 == Alloc(heap, n * SizeOfT)
           b == NextSlot
       IN /\ heap' = CopyNonoverlapping(h1, Len(heap) + 1, box[a].blk, n)
          /\ box' = [box EXCEPT ![b] = LiveBox("clone", Len(heap) + 1, n, box[a].slice, "Copy")]
          /\ reference' = [reference EXCEPT ![b] = reference[a]]
          /\ last' = Op("clone", 0, 0)
    /\ UNCHANGED <<pc, cur, zi, zlen, ctor, unwinding, abandoned>>

\* as EnterDrop, with no memzero when the drop comes from unwinding
EnterDropUnwindSkips(b, cause) ==
    /\ box' = [box EXCEPT ![b].state = "dropping", ![b].cause = cause,
                          ![b].zeroCalls = IF cause = "unwind" THEN @ ELSE @ + 1]
    /\ cur' = b
    /\ zi' = 0
    /\ zlen' = SizeOfVal(b)
    /\ pc' = IF cause = "unwind" THEN "glue" ELSE "zero"
    /\ reference' = [reference EXCEPT ![b] = <<>>]
    /\ last' = Op("drop", 0, 0)
    /\ UNCHANGED <<heap, ctor, unwinding, abandoned>>

\* Drop::drop is entered and calls memzero(&mut self.0 as &mut T), which
\* takes len = size_of_val(p) and starts its loop at 0.
EnterDrop(b, cause) ==
    /\ box' = [box EXCEPT ![b].state = "dropping", ![b].cause = cause, ![b].zeroCalls = @ + 1]
    /\ cur' = b
    /\ zi' = 0
    /\ zlen' = SizeOfVal(b)
    /\ pc' = "zero"
    /\ reference' = [reference EXCEPT ![b] = <<>>]
    /\ last' = Op("drop", 0, 0)
    /\ UNCHANGED <<heap, ctor, unwinding, abandoned>>

\* drop(s)
DropExplicit(b) == CanAccess(b) /\ EnterDrop(b, "explicit")

\* s goes out of scope
ScopeExit(b) == CanAccess(b) /\ EnterDrop(b, "scope")

\* a panic somewhere in the caller while containers are alive
Panic ==
    /\ pc = "idle"
    /\ ~unwinding
    /\ \E b \in Boxes : Live(b)
    /\ unwinding' = TRUE
    /\ last' = Op("panic", 0, 0)
    /\ UNCHANGED <<heap, box, pc, cur, zi, zlen, ctor, reference, abandoned>>

\* unwinding drops the locals, the latest declared first
UnwindDrop ==
    /\ pc = "idle"
    /\ unwinding
    /\ \E b \in Boxes :
        /\ Live(b)
        /\ \A c \in Boxes : Live(c) => c <= b
        /\ EnterDrop(b, "unwind")

\* the unwinding has left the frames that held containers (catch_unwind)
UnwindEnd ==
    /\ pc = "idle"
    /\ unwinding
    /\ \A b \in Boxes : ~Live(b)
    /\ unwinding' = FALSE
    /\ last' = Op("caught", 0, 0)
    /\ UNCHANGED <<heap, box, pc, cur, zi, zlen, ctor, reference, abandoned>>

\* memzero, loop body: raw.add(i).write_volatile(0_u8)
MemzeroStore ==
    /\ pc = "zero"
    /\ zi < zlen
    /\ heap' = WriteVolatile(heap, box[cur].blk, zi)
    /\ zi' = zi + 1
    /\ box' = [box EXCEPT ![cur].stores = @ + 1]
    /\ last' = Op("store", 0, 0)
    /\ UNCHANGED <<pc, cur, zlen, ctor, unwinding, abandoned, reference>>

\* as MemzeroFence, with the loop ending one byte early
MemzeroFenceEarly ==
    /\ pc = "zero"
    /\ zi >= zlen - 1
    /\ box' = [box EXCEPT ![cur].fences = @ + 1]
    /\ pc' = "glue"
    /\ last' = Op("fence", 0, 0)
    /\ UNCHANGED <<heap, cur, zi, zlen, ctor, unwinding, abandoned, reference>>

\* memzero, after the loop: atomic::fence(SeqCst), return
MemzeroFence ==
    /\ pc = "zero"
    /\ zi >= zlen
    /\ box' = [box EXCEPT ![cur].fences = @ + 1]
    /\ pc' = "glue"
    /\ last' = Op("fence", 0, 0)
    /\ UNCHANGED <<heap, cur, zi, zlen, ctor, unwinding, abandoned, reference>>

\* after Drop::drop returns the field is dropped: Box<T> runs the content's
\* destructor, if T has one, and releases the allocation
DropGlue ==
    /\ pc = "glue"
    /\ \E effect \in DtorEffects(box[cur].kind) :
          heap' = Dealloc(DropElems(heap, box[cur].blk, box[cur].len, effect), box[cur].blk)
    /\ box' = [box EXCEPT ![cur].state = "destroyed", ![cur].cause = "none",
                          ![cur].origin = "none", ![cur].slice = FALSE,
                          ![cur].dtorRuns = IF box[cur].kind = "Copy" THEN 0 ELSE box[cur].len]
    /\ pc' = "idle"
    /\ cur' = 0
    /\ zi' = 0
    /\ zlen' = 0
    /\ last' = [Op("released", 0, cur) EXCEPT !.out = <<box[cur].cause>>]
    /\ UNCHANGED <<ctor, unwinding, abandoned, reference>>

Next ==
    \/ \E v \in Placeholders : New(v)
    \/ Default
    \/ \E v \in Placeholders, n \in 0..MaxLen : NewSlice(v, n)
    \/ \E n \in 0..MaxLen, kind \in TypeKinds, seed \in Seeds : NewSliceWithBegin(n, kind, seed)
    \/ GenNext
    \/ GenPanic
    \/ NewSliceWithEnd
    \/ \E b \in Boxes : GetRefCall(b)
    \/ \E b \in Boxes, i \in 0..(MaxLen - 1), v \in Secrets : GetMutWrite(b, i, v)
    \/ \E b \in Boxes : Clone(b)
    \/ \E b \in Boxes : DropExplicit(b)
    \/ \E b \in Boxes : ScopeExit(b)
    \/ Panic
    \/ UnwindDrop
    \/ UnwindEnd
    \/ MemzeroStore
    \/ MemzeroFence
    \/ DropGlue

TypeOK ==
    /\ pc \in {"idle", "gen", "zero", "glue"}
    /\ \A k \in 1..Len(heap) : \A j \in DOMAIN heap[k].bytes :
          heap[k].bytes[j] \in (0..(Radix - 1)) \cup {Uninit}

Spec == Init /\ [][Next]_vars

\* ---- what the claims speak of ----
Bytes(k) == heap[k].bytes

AllZero(k) == \A j \in DOMAIN Bytes(k) : Bytes(k)[j] = 0

Released(b) == box[b].state = "destroyed"

\* C1: once destruction completes every byte of the allocation that backed
\* the container is zero, whatever constructor built it.
C1_DestroyedAllZero ==
    \A b \in Boxes : Released(b) => AllZero(box[b].blk)

\* C2: every path that ends a container's lifetime (drop(s), scope exit,
\* unwinding) runs memzero over the full allocation exactly once, and the
\* allocation of a container is never released without it.
C2_ZeroizeExactlyOnce ==
    \A b \in Boxes :
        /\ box[b].zeroCalls <= 1
        /\ Live(b) => box[b].zeroCalls = 0 /\ heap[box[b].blk].status = "alloc"
        /\ box[b].state = "dropping" =>
              /\ box[b].zeroCalls = 1
              /\ box[b].cause \in {"explicit", "scope", "unwind"}
              /\ heap[box[b].blk].status = "alloc"
        /\ Released(b) =>
              /\ box[b].zeroCalls = 1
              /\ box[b].fences = 1
              /\ box[b].stores = Len(Bytes(box[b].blk))
              /\ heap[box[b].blk].status = "freed"
        /\ box[b].state # "absent" /\ heap[box[b].blk].status = "freed" => Released(b)

C2_Witness ==
    /\ last.op = "released"
    /\ last.out = <<"unwind">>
    /\ box[last.b].len = MaxLen
    /\ \E c \in Boxes : c # last.b /\ Released(c)

\* C3: clone returns a container of the same element count and content,
\* backed by another allocation, and leaves the source as it was; from then
\* on a step changes the content of a live container only if it is a guarded
\* write to that very container.
C3_CloneMade ==
    last.op = "clone" =>
        /\ Live(1) /\ Live(2)
        /\ box[2].origin = "clone"
        /\ box[1].len = box[2].len
        /\ box[1].slice = box[2].slice
        /\ box[1].blk # box[2].blk
        /\ GetRef(2) = GetRef(1)
        /\ GetRef(1) = reference[1]

C3_Untouched ==
    \A b \in Boxes :
        (Live(b) /\ Live(b)' /\ reference'[b] = reference[b]) => GetRef(b)' = GetRef(b)

\* C3: a clone equals its source when made, and live containers never change
\* through anything but a guarded write to themselves.
C3_CloneIndependent == [](C3_CloneMade) /\ [][C3_Untouched]_vars

C3_Witness ==
    /\ box[2].origin = "clone"
    /\ Live(2)
    /\ Released(1)
    /\ box[2].len = MaxLen
    /\ GetRef(2)[1] \in Secrets
    /\ GetRef(2)[2] \in Placeholders

\* C4: new_slice_with(n, f) calls f exactly n times, in ascending index
\* order, and element i of the container is the result of the i-th call.
Counter(first, n) == [i \in 1..n |-> first + i - 1]

C4_GeneratedInOrder ==
    /\ pc = "gen" =>
          /\ Len(ctor.calls) = ctor.n - ctor.remaining
          /\ ctor.len = Len(ctor.calls)
          /\ ctor.calls = Counter(ctor.first, ctor.len)
          /\ \A i \in 1..ctor.len : Elem(Bytes(ctor.blk), i) = ctor.calls[i]
    /\ last.op = "new_slice_with_end" =>
          /\ Len(last.out) = last.a
          /\ box[last.b].len = last.a
          /\ \E first \in Seeds : last.out = Counter(first, last.a)
          /\ GetRef(last.b) = last.out

C4_Witness ==
    /\ last.op = "new_slice_with_end"
    /\ last.a = MaxLen
    /\ GetRef(last.b) = Counter(1, MaxLen)

C4_WitnessEmpty == last.op = "new_slice_with_end" /\ last.a = 0 /\ last.out = <<>>

\* C5: new_slice(v, n) yields a live container of exactly n elements equal
\* to v, for n = 0 too; reading it at once returns those n copies; a
\* zero-length container goes through its destruction to the end.
C5_Built ==
    last.op = "new_slice" =>
        /\ Live(last.b)
        /\ box[last.b].len = last.a
        /\ GetRef(last.b) = [i \in 1..last.a |-> last.out[1]]

C5_ReadAtOnce ==
    (last.op = "new_slice" /\ last'.op = "get_ref" /\ last'.b = last.b) =>
        last'.out = [i \in 1..last.a |-> last.out[1]]

C5_EmptyDrops ==
    /\ (pc = "zero" /\ zlen = 0) => ENABLED MemzeroFence
    /\ pc = "glue" => ENABLED DropGlue
    /\ \A b \in Boxes : (Released(b) /\ box[b].len = 0) => box[b].stores = 0

\* C5: new_slice(v, n) is n copies of v, read back at once as such, and a
\* zero-length container drops to the end.
C5_RepeatedSequence == [](C5_Built /\ C5_EmptyDrops) /\ [][C5_ReadAtOnce]_vars

C5_Witness ==
    /\ last.op = "get_ref"
    /\ box[last.b].origin = "new_slice"
    /\ last.out = [i \in 1..MaxLen |-> 42]

C5_WitnessEmpty ==
    /\ last.op = "released"
    /\ box[last.b].len = 0
    /\ Bytes(box[last.b].blk) = <<>>

\* C6: while a container is live, what get_ref reads is what the
\* constructor and the guarded writes last put there: a write at index i
\* reads back at i and leaves every other index as it was.
C6_ReadsLastWritten ==
    /\ \A b \in Boxes : Live(b) => GetRef(b) = reference[b]
    /\ last.op = "get_ref" => last.out = reference[last.b]

C6_Witness ==
    /\ last.op = "get_ref"
    /\ box[last.b].origin = "new_slice"
    /\ box[last.b].len = MaxLen
    /\ last.out[MaxLen] = 355
    /\ \A i \in 1..(MaxLen - 1) : last.out[i] = 42

\* C7: every constructor takes Copy content only, so no container holds
\* content with a destructor and none is run on the zeroed bytes.
C7_OnlyCopyContent ==
    \A b \in Boxes :
        box[b].state # "absent" => box[b].kind = "Copy" /\ box[b].dtorRuns = 0

\* C8: memzero stores 0 to each of the len bytes of its region, one store
\* per byte, then fences and returns; on return all len bytes are zero, no
\* byte outside the region was written, and for len = 0 nothing is stored.
C8_Loop ==
    pc = "zero" =>
        /\ box[cur].fences = 0
        /\ box[cur].stores = zi
        /\ zi <= zlen
        /\ zlen = Len(Bytes(box[cur].blk))
        /\ \A j \in 1..zi : Bytes(box[cur].blk)[j] = 0

C8_Returned ==
    pc = "glue" =>
        /\ box[cur].fences = 1
        /\ box[cur].stores = zlen
        /\ zlen = Len(Bytes(box[cur].blk))
        /\ AllZero(box[cur].blk)

C8_OnlyRegion ==
    pc = "zero" =>
        /\ \A k \in 1..Len(heap) : k # box[cur].blk => heap'[k] = heap[k]
        /\ \A j \in 1..zlen : j # zi + 1 => Bytes(box[cur].blk)'[j] = Bytes(box[cur].blk)[j]
        /\ box'[cur].fences = 1 => box'[cur].stores = zlen /\ heap' = heap

\* C8: memzero zeroes exactly its region, one store per byte, then fences.
C8_Memzero == [](C8_Loop /\ C8_Returned) /\ [][C8_OnlyRegion]_vars

C8_Witness ==
    /\ pc = "glue"
    /\ zlen = MaxLen * SizeOfT
    /\ box[cur].stores = zlen
    /\ \E c \in Boxes : c # cur /\ Live(c) /\ ~AllZero(box[c].blk)

C8_WitnessEmpty == pc = "glue" /\ zlen = 0 /\ box[cur].stores = 0

\* C9: a live container's allocation is exactly as long as its content (one
\* T, or N times size_of T), and no constructor or clone leaves any other
\* buffer behind: every block of the heap backs a container, or is the
\* buffer of the construction under way or of one its generator abandoned.
Owned(k) ==
    \/ \E b \in Boxes : box[b].state # "absent" /\ box[b].blk = k
    \/ pc = "gen" /\ ctor.blk = k
    \/ k \in abandoned

C9_ExactAllocation ==
    /\ \A b \in Boxes : Live(b) =>
          /\ Len(Bytes(box[b].blk)) = box[b].len * SizeOfT
          /\ ~box[b].slice => box[b].len = 1
          /\ \A j \in DOMAIN Bytes(box[b].blk) : Bytes(box[b].blk)[j] # Uninit
    /\ pc = "gen" => ctor.cap = ctor.n /\ Len(Bytes(ctor.blk)) = ctor.n * SizeOfT
    /\ \A k \in 1..Len(heap) : Owned(k)
    /\ \A b, c \in Boxes :
          (b # c /\ box[b].state # "absent" /\ box[c].state # "absent") => box[b].blk # box[c].blk

C9_Witness ==
    /\ Live(1) /\ Live(2)
    /\ box[1].origin = "new_slice_with"
    /\ box[2].origin = "clone"
    /\ box[1].len = MaxLen
    /\ Len(Bytes(box[2].blk)) = MaxLen * SizeOfT

\* C10: when the k-th call of the generator unwinds, the k-1 elements
\* already written are zeroed before their storage is released.
C10_AbandonedZeroed ==
    \A k \in abandoned : \A j \in DOMAIN Bytes(k) : Bytes(k)[j] \in {0, Uninit}

====
